---- MODULE Spec2Model ----
(***************************************************************************)
(* Model of the file sinks of vector:                                      *)
(*   src/sinks/file.rs              FileSink (one file, one handle)        *)
(*   src/sinks/partitioned_file.rs  PartitionedFileSink (one FileSink per  *)
(*                                  rendered path)                         *)
(* A file is a sequence of bytes.  The operating system (the pending open, *)
(* the readiness of the disk) is part of the state and moves by its own    *)
(* actions; every Sink method is one action that runs the whole method.    *)
(***************************************************************************)
EXTENDS Integers, Sequences, FiniteSets, TLC

\* ------------------------------------------------------------------ bounds
\* number of buffers one FileSink accepts in a run
MaxSends == 3
\* FramedWrite's BACKPRESSURE_BOUNDARY (8 KiB in tokio-codec), scaled down
BackpressureBoundary == 4
\* bytes a busy or failing disk still takes before it blocks or fails
MaxRoom == 2
\* number of events the PartitionedFileSink hands to its children in a run
MaxEvents == 3
\* number of FileSinks constructed on the one path, one after the other
MaxSinks == 2
\* length of the array unflatten puts together
MaxLen == 3

\* ------------------------------------------------------------------ values
NL == 0
\* the buffers a caller hands to a FileSink: one byte of text and a newline
Lines == { <<1, NL>>, <<2, NL>> }
\* content a file may hold before the sink is constructed
OldContents == { <<>>, <<3, NL>> }

OpenOutcomes == {"pending", "ok", "err"}
DiskStates == { [io |-> "ok", room |-> 0] } \cup
              { [io |-> i, room |-> n] : i \in {"pending", "err"}, n \in 0..MaxRoom }
CloseOutcomes == {"ok", "pending", "err"}
\* the router's disks: ready, busy or failing in the middle of a record
RouterDiskStates == { [io |-> i, room |-> IF i = "ok" THEN 0 ELSE 1] :
                        i \in {"ok", "pending", "err"} }

Min(a, b) == IF a < b THEN a ELSE b

RECURSIVE Flatten(_)
Flatten(ss) == IF ss = <<>> THEN <<>> ELSE Head(ss) \o Flatten(Tail(ss))

IsPrefix(s, t) == Len(s) <= Len(t) /\ SubSeq(t, 1, Len(s)) = s

\* ------------------------------------------------- FramedWrite<File, BytesCodec>
\* poll_complete: write the buffer out, then flush.  A ready disk takes
\* everything; a busy or failing one takes d.room bytes and then answers
\* NotReady or an error.
Fw_poll_complete(buffer, d) ==
    IF d.io = "ok"
    THEN [buffer |-> <<>>, wrote |-> buffer, r |-> "Ready"]
    ELSE [buffer |-> SubSeq(buffer, Min(d.room, Len(buffer)) + 1, Len(buffer)),
          wrote  |-> SubSeq(buffer, 1, Min(d.room, Len(buffer))),
          r      |-> IF d.io = "err" THEN "IoError" ELSE "NotReady"]

\* start_send after the flush pc of a buffer that was over the boundary
Fw_start_send_flushed(pc, line) ==
    IF pc.r = "IoError"
    THEN [buffer |-> pc.buffer, wrote |-> pc.wrote, r |-> "IoError", back |-> <<>>]
    ELSE IF Len(pc.buffer) >= BackpressureBoundary
    THEN [buffer |-> pc.buffer, wrote |-> pc.wrote, r |-> "NotReady", back |-> line]
    ELSE [buffer |-> pc.buffer \o line, wrote |-> pc.wrote, r |-> "Ready",
          back |-> <<>>]

\* start_send: a buffer at or over the boundary is flushed first; the item is
\* rejected if it is still over the boundary, else appended to the buffer.
\* back is the item AsyncSink::NotReady hands back.
Fw_start_send(buffer, line, d) ==
    IF Len(buffer) >= BackpressureBoundary
    THEN Fw_start_send_flushed(Fw_poll_complete(buffer, d), line)
    ELSE [buffer |-> buffer \o line, wrote |-> <<>>, r |-> "Ready", back |-> <<>>]

\* close after its poll_complete pc: shut the handle down (outcome cl)
Fw_close_flushed(pc, cl) ==
    IF pc.r # "Ready" THEN pc
    ELSE [buffer |-> pc.buffer, wrote |-> pc.wrote,
          r |-> CASE cl = "ok" -> "Ready"
                  [] cl = "pending" -> "NotReady"
                  [] OTHER -> "IoError"]

\* close: poll_complete, then shutdown.
Fw_close(buffer, d, cl) == Fw_close_flushed(Fw_poll_complete(buffer, d), cl)

\* ------------------------------------------------------------------ FileSink
\* FileSinkState: the variant, and for FileProvided the FramedWrite's buffer
\* and whether the handle has been shut down
Disconnected == [state |-> "Disconnected", buffer |-> <<>>, closed |-> FALSE]
OpeningFile == [state |-> "OpeningFile", buffer |-> <<>>, closed |-> FALSE]
FileProvided(buffer, closed) ==
    [state |-> "FileProvided", buffer |-> buffer, closed |-> closed]

\* FileSinkState::init: the open is issued (create, append), not yet polled.
FileSinkState_init == OpeningFile

FileSink_new == FileSinkState_init

\* the error value of disconnected()
disconnected == "NotConnected"

\* poll_file that starts a new open when it finds the sink Disconnected
poll_file_reopen(s, o) ==
    CASE s.state = "Disconnected" ->
            [s |-> FileSinkState_init, r |-> "NotReady", io |-> TRUE]
      [] s.state = "FileProvided" ->
            [s |-> s, r |-> "Ready", io |-> FALSE]
      [] OTHER ->
            CASE o = "ok" ->
                    [s |-> FileProvided(<<>>, FALSE), r |-> "Ready", io |-> TRUE]
              [] o = "pending" ->
                    [s |-> s, r |-> "NotReady", io |-> TRUE]
              [] OTHER ->
                    [s |-> Disconnected, r |-> "IoError", io |-> TRUE]

\* poll_file: o is the outcome of polling the pending open.
poll_file(s, o) ==
    CASE s.state = "Disconnected" ->
            [s |-> s, r |-> disconnected, io |-> FALSE]
      [] s.state = "FileProvided" ->
            [s |-> s, r |-> "Ready", io |-> FALSE]
      [] OTHER ->
            CASE o = "ok" ->
                    [s |-> FileProvided(<<>>, FALSE), r |-> "Ready", io |-> TRUE]
              [] o = "pending" ->
                    [s |-> s, r |-> "NotReady", io |-> TRUE]
              [] OTHER ->
                    [s |-> Disconnected, r |-> "IoError", io |-> TRUE]

\* an open that truncates the file
File_open_truncating(content) == <<>>

\* the file as the open leaves it: OpenOptions create(true).append(true)
\* keeps what the file holds (and writes go to its end)
File_open(content) == content

\* the file after poll_file answered pf: the open, if this call completed it
after_poll_file(pf, content) ==
    IF pf.io /\ pf.r = "Ready" THEN File_open(content) ELSE content

\* the line put in front of the lines still queued in the FramedWrite buffer
start_send_sent_unqueued(s, content, line, fw) ==
    IF fw.r = "IoError"
    THEN [s |-> Disconnected, file |-> content \o fw.wrote,
          r |-> "IoError", io |-> TRUE, back |-> <<>>]
    ELSE IF fw.r = "Ready"
    THEN [s |-> FileProvided(line \o SubSeq(fw.buffer, 1, Len(fw.buffer) - Len(line)),
                             s.closed),
          file |-> content \o fw.wrote, r |-> fw.r, io |-> TRUE, back |-> fw.back]
    ELSE [s |-> FileProvided(fw.buffer, s.closed), file |-> content \o fw.wrote,
          r |-> fw.r, io |-> TRUE, back |-> fw.back]

\* start_send, the arms of `match file.start_send(line)` (fw is its outcome)
start_send_sent(s, content, line, fw) ==
    IF fw.r = "IoError"
    THEN [s |-> Disconnected, file |-> content \o fw.wrote,
          r |-> "IoError", io |-> TRUE, back |-> <<>>]
    ELSE [s |-> FileProvided(fw.buffer, s.closed), file |-> content \o fw.wrote,
          r |-> fw.r, io |-> TRUE, back |-> fw.back]

\* start_send that answers Ready while the open is pending, dropping the line
start_send_polled_dropping(pf, content, line, d) ==
    IF pf.r = "Ready"
    THEN start_send_sent(pf.s, after_poll_file(pf, content), line,
                         Fw_start_send(pf.s.buffer, line, d))
    ELSE [s |-> pf.s, file |-> content, io |-> pf.io, back |-> <<>>,
          r |-> IF pf.r = "NotReady" THEN "Ready" ELSE pf.r]

\* start_send, the arms of `match self.poll_file()` (pf is its outcome):
\* Ok(Async::NotReady) => Ok(AsyncSink::NotReady(line))
start_send_polled(pf, content, line, d) ==
    IF pf.r = "Ready"
    THEN start_send_sent(pf.s, after_poll_file(pf, content), line,
                         Fw_start_send(pf.s.buffer, line, d))
    ELSE [s |-> pf.s, file |-> content, r |-> pf.r, io |-> pf.io,
          back |-> IF pf.r = "NotReady" THEN line ELSE <<>>]

\* start_send that does not poll the open: it waits for another call to do so
FileSink_start_send_unpolled(s, content, line, o, d) ==
    IF s.state = "OpeningFile"
    THEN [s |-> s, file |-> content, r |-> "NotReady", io |-> FALSE, back |-> line]
    ELSE start_send_polled(poll_file(s, o), content, line, d)

\* start_send: `match self.poll_file()`
FileSink_start_send(s, content, line, o, d) ==
    start_send_polled(poll_file(s, o), content, line, d)

\* poll_complete that goes back to opening the file after a failed flush
poll_complete_flushed_reopening(s, content, fw) ==
    IF fw.r = "IoError"
    THEN [s |-> FileSinkState_init, file |-> content \o fw.wrote,
          r |-> "Ready", io |-> TRUE]
    ELSE [s |-> FileProvided(fw.buffer, s.closed), file |-> content \o fw.wrote,
          r |-> fw.r, io |-> TRUE]

\* poll_complete, the arms of `match file.poll_complete()`: the error is
\* logged, the state set to Disconnected and Ok(Ready) returned
poll_complete_flushed(s, content, fw) ==
    IF fw.r = "IoError"
    THEN [s |-> Disconnected, file |-> content \o fw.wrote,
          r |-> "Ready", io |-> TRUE]
    ELSE [s |-> FileProvided(fw.buffer, s.closed), file |-> content \o fw.wrote,
          r |-> fw.r, io |-> TRUE]

\* poll_complete that answers Ready while the open is still pending
poll_complete_polled_eager(pf, content, d) ==
    IF pf.r = "Ready"
    THEN poll_complete_flushed(pf.s, after_poll_file(pf, content),
                               Fw_poll_complete(pf.s.buffer, d))
    ELSE [s |-> pf.s, file |-> content, io |-> pf.io,
          r |-> IF pf.r = "NotReady" THEN "Ready" ELSE pf.r]

\* poll_complete, `try_ready!(self.poll_file())`
poll_complete_polled(pf, content, d) ==
    IF pf.r = "Ready"
    THEN poll_complete_flushed(pf.s, after_poll_file(pf, content),
                               Fw_poll_complete(pf.s.buffer, d))
    ELSE [s |-> pf.s, file |-> content, r |-> pf.r, io |-> pf.io]

FileSink_poll_complete(s, content, o, d) ==
    IF s.state = "Disconnected"
    THEN [s |-> s, file |-> content, r |-> disconnected, io |-> FALSE]
    ELSE poll_complete_polled(poll_file(s, o), content, d)

\* close that moves to Disconnected once the handle has been closed
close_closed_disconnecting(s, content, fw) ==
    [s |-> IF fw.r = "Ready" THEN Disconnected ELSE FileProvided(fw.buffer, s.closed),
     file |-> content \o fw.wrote, r |-> fw.r, io |-> TRUE]

\* close, the FileProvided arm: `sink.close()` with outcome fw; the state stays
close_closed(s, content, fw) ==
    [s |-> FileProvided(fw.buffer, s.closed \/ fw.r = "Ready"),
     file |-> content \o fw.wrote, r |-> fw.r, io |-> TRUE]

\* close that answers Ready on a sink that was already Disconnected
close_completed_quiet(pc, d, cl) ==
    IF pc.r = "Ready"
    THEN CASE pc.s.state = "Disconnected" -> pc
           [] pc.s.state = "FileProvided" ->
                close_closed(pc.s, pc.file, Fw_close(pc.s.buffer, d, cl))
           [] OTHER -> [pc EXCEPT !.r = "Panic"]
    ELSE IF pc.r = disconnected
    THEN [pc EXCEPT !.r = "Ready"]
    ELSE pc

\* close, the arms of `match self.poll_complete()` (pc is its outcome)
close_completed(pc, d, cl) ==
    IF pc.r = "Ready"
    THEN CASE pc.s.state = "Disconnected" -> pc
           [] pc.s.state = "FileProvided" ->
                close_closed(pc.s, pc.file, Fw_close(pc.s.buffer, d, cl))
           [] OTHER -> [pc EXCEPT !.r = "Panic"]
    ELSE pc

FileSink_close(s, content, o, d, cl) ==
    close_completed(FileSink_poll_complete(s, content, o, d), d, cl)

\* ------------------------------------------------------------------ state
VARIABLES
    sink,       \* the FileSink: [state, buffer, closed]
    file,       \* content of the file at sink.path
    orig,       \* content of the file when the sink was constructed
    open,       \* outcome the pending OpenFuture gives when polled
    disk,       \* readiness of the disk behind the handle
    accepted,   \* the buffers start_send answered Ready to, in order
    op,         \* the last Sink method called on the FileSink
    result,     \* what it returned
    pre,        \* the FileSinkState it was called in
    io,         \* whether it polled the open or called the handle
    arg,        \* the buffer it was called with (start_send)
    back,       \* the buffer it handed back (AsyncSink::NotReady)
    nsinks,     \* how many FileSinks have been constructed on the path
    first,      \* content of the file before the first of them
    prior       \* the buffers the earlier sinks accepted, in order

svars == <<sink, file, orig, open, disk, accepted, op, result, pre, io,
           arg, back, nsinks, first, prior>>

VARIABLES
    partitions, \* PartitionedFileSink.partitions: path -> child sink
    files,      \* content of the file at every path
    ropen,      \* per path: outcome the child's pending open gives when polled
    rdisk,      \* per path: readiness of the disk behind the child's handle
    routed,     \* the events handed to a child and answered Ready, in order
    rop,        \* the last Sink method called on the router
    rarg,       \* the event it was called with (start_send)
    rresult     \* what it returned

rvars == <<partitions, files, ropen, rdisk, routed, rop, rarg, rresult>>

\* unflatten
VARIABLES
    map,        \* the flat map unflatten is given: key -> value
    todo,       \* the keys its loop has not come to yet
    m,          \* the MapValue it has built so far
    lead        \* the key its loop came to first

uvars == <<map, todo, m, lead>>

vars == <<svars, rvars, uvars>>

SinkInit ==
    /\ sink = FileSink_new
    /\ orig \in OldContents
    /\ file = orig
    /\ open = "pending"
    /\ disk = [io |-> "ok", room |-> 0]
    /\ accepted = <<>>
    /\ op = "new"
    /\ result = "none"
    /\ pre = "none"
    /\ io = FALSE
    /\ arg = <<>>
    /\ back = <<>>
    /\ nsinks = 1
    /\ first = orig
    /\ prior = <<>>

\* ------------------------------------------------------------------ the OS
\* the pending open resolves
OpenResolves ==
    /\ open = "pending"
    /\ open' \in {"ok", "err"}
    /\ UNCHANGED <<sink, file, orig, disk, accepted, op, result, pre, io>>
    /\ UNCHANGED <<arg, back, nsinks, first, prior>>
    /\ UNCHANGED <<rvars, uvars>>

\* the disk becomes ready, busy or failing
DiskChanges ==
    /\ disk' \in DiskStates \ {disk}
    /\ UNCHANGED <<sink, file, orig, open, accepted, op, result, pre, io>>
    /\ UNCHANGED <<arg, back, nsinks, first, prior>>
    /\ UNCHANGED <<rvars, uvars>>

\* ------------------------------------------------------------------ calls
Returned(name, a, out) ==
    /\ sink' = out.s
    /\ file' = out.file
    /\ op' = name
    /\ arg' = a
    /\ result' = out.r
    /\ back' = IF "back" \in DOMAIN out THEN out.back ELSE <<>>
    /\ pre' = sink.state
    /\ io' = out.io
    /\ UNCHANGED <<orig, open, disk, nsinks, first, prior>>
    /\ UNCHANGED <<rvars, uvars>>

StartSend ==
    \E line \in Lines :
        /\ Len(prior) + Len(accepted) < MaxSends
        /\ result # "Panic"
        /\ Returned("start_send", line,
                    FileSink_start_send(sink, file, line, open, disk))
        /\ accepted' = IF result' = "Ready" THEN Append(accepted, line) ELSE accepted

PollComplete ==
    /\ result # "Panic"
    /\ Returned("poll_complete", <<>>,
                FileSink_poll_complete(sink, file, open, disk))
    /\ UNCHANGED accepted

\* poll_file touches no file content
Polled(pf) ==
    [s |-> pf.s, file |-> after_poll_file(pf, file), r |-> pf.r, io |-> pf.io]

\* poll_file is public: a caller may drive the open with it
PollFile ==
    /\ result # "Panic"
    /\ Returned("poll_file", <<>>, Polled(poll_file(sink, open)))
    /\ UNCHANGED accepted

Close ==
    \E cl \in CloseOutcomes :
        /\ result # "Panic"
        /\ Returned("close", <<>>, FileSink_close(sink, file, open, disk, cl))
        /\ UNCHANGED accepted

\* the sink has been closed and dropped; a new FileSink is constructed on the
\* same path (FileSink::new), with a new pending open
NewSink ==
    /\ nsinks < MaxSinks
    /\ op = "close" /\ result = "Ready" /\ sink.state = "FileProvided"
    /\ sink' = FileSink_new
    /\ open' = "pending"
    /\ orig' = file
    /\ prior' = prior \o accepted
    /\ accepted' = <<>>
    /\ nsinks' = nsinks + 1
    /\ op' = "new"
    /\ result' = "none"
    /\ pre' = "none"
    /\ io' = FALSE
    /\ arg' = <<>>
    /\ back' = <<>>
    /\ UNCHANGED <<file, disk, first>>
    /\ UNCHANGED <<rvars, uvars>>

Next ==
    OpenResolves \/ DiskChanges \/ PollFile \/ StartSend \/ PollComplete \/ Close
        \/ NewSink

TypeOK ==
    /\ sink.state \in {"OpeningFile", "FileProvided", "Disconnected"}
    /\ open \in OpenOutcomes
    /\ disk \in DiskStates
    /\ result \in {"none", "Ready", "NotReady", "IoError", disconnected, "Panic"}
    /\ Len(prior) + Len(accepted) <= MaxSends
    /\ nsinks \in 1..MaxSinks

\* ------------------------------------------------------ the router's values
NoField == "none"
Services == {"a", "b"}
Msgs == {1, 2}
\* an event: the field the path template names (or no such field) and a message
Events == [service : Services \cup {NoField}, msg : Msgs]
Paths == {"a.log", "b.log"}
RenderErr == "missing keys"
\* the argument recorded for a call that takes no event
NoEvent == [service |-> NoField, msg |-> 0]

\* Template::render of "{{service}}.log"
render(event) ==
    CASE event.service = "a" -> "a.log"
      [] event.service = "b" -> "b.log"
      [] OTHER -> RenderErr

\* encoding::log_event_as_bytes_with_nl, text encoding: the message and a newline
log_event_as_bytes_with_nl(event) == <<event.msg, NL>>

\* ------------------------------------------- sink_map_err(..) over a FileSink
\* A child is [with, item, f, sink]: the state of the With combinator and the
\* item it holds, whether the sink_map_err closure is still there, the FileSink.
\* The closure is FnOnce: mapping a second error panics.
MapErr(c, out) ==
    IF out.r \in {"IoError", disconnected}
    THEN [c |-> [c EXCEPT !.sink = out.s, !.f = FALSE], file |-> out.file,
          r |-> IF c.f THEN "Err" ELSE "Panic"]
    ELSE [c |-> [c EXCEPT !.sink = out.s], file |-> out.file, r |-> out.r]

MapErr_start_send(c, content, item, o, d) ==
    MapErr(c, FileSink_start_send(c.sink, content, item, o, d))

MapErr_poll_complete(c, content, o, d) ==
    MapErr(c, FileSink_poll_complete(c.sink, content, o, d))

\* ------------------------------------------------- with(encode) over that
\* the item With hands down: the encoded event, or the item handed back before
With_item(c) ==
    IF c.with = "Process" THEN log_event_as_bytes_with_nl(c.item) ELSE c.item

\* With::poll after the sink below answered ss to start_send(item)
With_poll_sent(item, ss) ==
    IF ss.r = "NotReady"
    THEN [c |-> [ss.c EXCEPT !.with = "Buffered", !.item = item],
          file |-> ss.file, r |-> "NotReady"]
    ELSE ss

\* With::poll: encode the held event and hand it to the sink below.  The
\* state is taken out (Empty) before the sink is called, so an item whose
\* start_send fails is gone.
With_poll(c, content, o, d) ==
    IF c.with = "Empty"
    THEN [c |-> c, file |-> content, r |-> "Ready"]
    ELSE With_poll_sent(With_item(c),
             MapErr_start_send([c EXCEPT !.with = "Empty", !.item = <<>>],
                               content, With_item(c), o, d))

\* With::start_send after its poll p: the event is held, or handed back
With_start_send_polled(p, event) ==
    IF p.r = "Ready"
    THEN [c |-> [p.c EXCEPT !.with = "Process", !.item = event],
          file |-> p.file, r |-> "Ready"]
    ELSE p

With_start_send(c, content, event, o, d) ==
    With_start_send_polled(With_poll(c, content, o, d), event)

\* With::poll_complete, `try_ready!(self.sink.poll_complete()); Ok(me_ready)`
With_poll_complete_down(me_ready, pc) ==
    IF pc.r = "Ready" THEN [pc EXCEPT !.r = me_ready] ELSE pc

\* With::poll_complete after its poll p
With_poll_complete_polled(p, o, d) ==
    IF p.r \in {"Err", "Panic"}
    THEN p
    ELSE With_poll_complete_down(p.r, MapErr_poll_complete(p.c, p.file, o, d))

With_poll_complete(c, content, o, d) ==
    With_poll_complete_polled(With_poll(c, content, o, d), o, d)

\* FileSink::new_with_encoding
FileSink_new_with_encoding ==
    [with |-> "Empty", item |-> <<>>, f |-> TRUE, sink |-> FileSink_new, id |-> 0]

\* --------------------------------------------------------- PartitionedFileSink
PartitionedFileSink_new == << >>

\* an insert that puts a new sink in the place of the one the key has
entry_or_insert_fresh(parts, path) ==
    [FileSink_new_with_encoding EXCEPT !.id = Cardinality(DOMAIN parts) + 1]

\* self.partitions.entry(path).or_insert(FileSink::new_with_encoding(..)):
\* the sink of the key, a new one only if the key has none. id tells the
\* sinks put into the table apart: the n-th entry holds sink n.
entry_or_insert(parts, path) ==
    IF path \in DOMAIN parts
    THEN parts[path]
    ELSE [FileSink_new_with_encoding EXCEPT !.id = Cardinality(DOMAIN parts) + 1]

\* start_send that fails once any other partition has failed
start_send_delegated_gated(parts, fs, path, ss) ==
    [partitions |-> [q \in DOMAIN parts \cup {path} |->
                        IF q = path THEN ss.c ELSE parts[q]],
     files |-> [fs EXCEPT ![path] = ss.file],
     r |-> IF \E q \in DOMAIN parts \ {path} : parts[q].sink.state = "Disconnected"
           THEN "Err" ELSE ss.r]

\* start_send, the Ok arm: the child's answer ss is the router's answer
start_send_delegated(parts, fs, path, ss) ==
    [partitions |-> [q \in DOMAIN parts \cup {path} |->
                        IF q = path THEN ss.c ELSE parts[q]],
     files |-> [fs EXCEPT ![path] = ss.file],
     r |-> ss.r]

\* start_send that reports an event it cannot render as an error
start_send_rendered_strict(parts, fs, event, path, os, ds) ==
    IF path = RenderErr
    THEN [partitions |-> parts, files |-> fs, r |-> "Err"]
    ELSE start_send_delegated(parts, fs, path,
             With_start_send(entry_or_insert(parts, path), fs[path], event,
                             os[path], ds[path]))

\* start_send, the arms of `match self.path_template.render(&event)`
start_send_rendered(parts, fs, event, path, os, ds) ==
    IF path = RenderErr
    THEN [partitions |-> parts, files |-> fs, r |-> "Ready"]
    ELSE start_send_delegated(parts, fs, path,
             With_start_send(entry_or_insert(parts, path), fs[path], event,
                             os[path], ds[path]))

\* start_send: returns [partitions, files, r]
PartitionedFileSink_start_send(parts, fs, event, os, ds) ==
    start_send_rendered(parts, fs, event, render(event), os, ds)

\* a turn that takes a child that answered an error out of the table
PollPartition_polled_evicting(sofar, path, pc) ==
    [partitions |-> IF pc.r = "Err"
                    THEN [q \in DOMAIN sofar.partitions \ {path} |->
                             sofar.partitions[q]]
                    ELSE [sofar.partitions EXCEPT ![path] = pc.c],
     files |-> [sofar.files EXCEPT ![path] = pc.file],
     r |-> IF pc.r = "Panic" THEN "Panic" ELSE "Ready"]

\* one turn of poll_complete's for_each closure: the child's answer pc is
\* dropped (Ok(_) => {}, Err(()) => logged); a panic unwinds
PollPartition_polled(sofar, path, pc) ==
    [partitions |-> [sofar.partitions EXCEPT ![path] = pc.c],
     files |-> [sofar.files EXCEPT ![path] = pc.file],
     r |-> IF pc.r = "Panic" THEN "Panic" ELSE "Ready"]

PollPartition(sofar, path, os, ds) ==
    IF sofar.r = "Panic"
    THEN sofar
    ELSE PollPartition_polled(sofar, path,
             With_poll_complete(sofar.partitions[path], sofar.files[path],
                                os[path], ds[path]))

\* poll_complete: every child is polled, in the order the table yields them
PollPartitions(order, parts, fs, os, ds) ==
    LET turn[i \in 0..Len(order)] ==
            IF i = 0
            THEN [partitions |-> parts, files |-> fs, r |-> "Ready"]
            ELSE PollPartition(turn[i - 1], order[i], os, ds)
    IN  turn[Len(order)]

PartitionedFileSink_poll_complete(order, parts, fs, os, ds) ==
    PollPartitions(order, parts, fs, os, ds)

\* close is not overridden: Sink::close defaults to poll_complete
PartitionedFileSink_close(order, parts, fs, os, ds) ==
    PartitionedFileSink_poll_complete(order, parts, fs, os, ds)

\* the orders in which a table with these keys can be iterated
Orders(keys) ==
    { ord \in [1..Cardinality(keys) -> keys] :
        \A i, j \in 1..Cardinality(keys) : i # j => ord[i] # ord[j] }

RouterInit ==
    /\ partitions = PartitionedFileSink_new
    /\ files = [p \in Paths |-> <<>>]
    /\ ropen = [p \in Paths |-> "pending"]
    /\ rdisk = [p \in Paths |-> [io |-> "ok", room |-> 0]]
    /\ routed = <<>>
    /\ rop = "new"
    /\ rarg = NoEvent
    /\ rresult = "none"

\* ------------------------------------------------------------------ unflatten
\* src/event/unflatten.rs.  A key is a string, modelled as the sequence of its
\* characters; a MapValue is a record [kind, c], c being the value, the map
\* (a function from keys), the array (a sequence) or nothing.
MapValue_Value(v) == [kind |-> "Value", c |-> v]
MapValue_Map(entries) == [kind |-> "Map", c |-> entries]
MapValue_Array(elems) == [kind |-> "Array", c |-> elems]
MapValue_Null == [kind |-> "Null", c |-> <<>>]

DigitChars == <<"0", "1", "2", "3", "4", "5", "6", "7", "8", "9">>
IsDigit(ch) == \E d \in 1..10 : DigitChars[d] = ch

\* i.as_str().parse::<usize>()
parse_usize(ds) ==
    LET val[n \in 0..Len(ds)] ==
            IF n = 0 THEN 0
            ELSE 10 * val[n - 1] + (CHOOSE d \in 0..9 : DigitChars[d + 1] = ds[n])
    IN  val[Len(ds)]

\* usize to_string, as the keys of a flattened array are written
to_string(i) ==
    IF i < 10 THEN <<DigitChars[i + 1]>>
    ELSE <<DigitChars[(i \div 10) + 1], DigitChars[(i % 10) + 1]>>

\* the n-th largest member of a set of numbers
NthLargest(S, n) == CHOOSE x \in S : Cardinality({y \in S : y > x}) = n - 1

\* k.rsplit("."): the segments of k between the dots, the last one first
rsplit(k) ==
    [j \in 1..(Cardinality({i \in 1..Len(k) : k[i] = "."}) + 1) |->
        SubSeq(k,
               NthLargest({i \in 1..Len(k) : k[i] = "."} \cup {0, Len(k) + 1}, j + 1) + 1,
               NthLargest({i \in 1..Len(k) : k[i] = "."} \cup {0, Len(k) + 1}, j) - 1)]

\* the matches of (?P<key>\D+)\[(?P<index>\d+)\] in seg: <<s, b, e>> with the
\* key at s..b-1, "[" at b, the index at b+1..e-1 and "]" at e
RE_matches(seg) ==
    { t \in (1..Len(seg)) \X (1..Len(seg)) \X (1..Len(seg)) :
        /\ t[1] < t[2] /\ t[2] + 1 < t[3]
        /\ seg[t[2]] = "[" /\ seg[t[3]] = "]"
        /\ \A i \in t[1]..(t[2] - 1) : ~IsDigit(seg[i])
        /\ \A i \in (t[2] + 1)..(t[3] - 1) : IsDigit(seg[i]) }

\* RE.captures: the leftmost match, its \D+ as long as can be
RE_captures_of(seg, ms) ==
    IF ms = {}
    THEN [found |-> FALSE, key |-> seg, index |-> <<>>]
    ELSE LET t == CHOOSE x \in ms :
                    \A y \in ms : x[1] < y[1] \/ (x[1] = y[1] /\ x[2] >= y[2])
         IN  [found |-> TRUE,
              key |-> SubSeq(seg, t[1], t[2] - 1),
              index |-> SubSeq(seg, t[2] + 1, t[3] - 1)]

RE_captures(seg) == RE_captures_of(seg, RE_matches(seg))

\* uf, one turn of its loop with the capture cap: an indexed segment wraps v
\* into an array of i Nulls and v; the segment's key then maps to the value
uf_captured(cap, v) ==
    IF cap.found
    THEN MapValue_Map(cap.key :>
            MapValue_Array([j \in 1..(parse_usize(cap.index) + 1) |->
                               IF j = parse_usize(cap.index) + 1
                               THEN v ELSE MapValue_Null]))
    ELSE MapValue_Map(cap.key :> v)

uf_segment(seg, v) == uf_captured(RE_captures(seg), v)

\* uf: the segments are wrapped around v from the last to the first
uf_wrapped(segs, v) ==
    LET val[j \in 0..Len(segs)] ==
            IF j = 0 THEN v ELSE uf_segment(segs[j], val[j - 1])
    IN  val[Len(segs)]

uf(k, v) == uf_wrapped(rsplit(k), v)

\* Vec::remove and Vec::insert, i counted from 0
Vec_remove(a, i) == SubSeq(a, 1, i) \o SubSeq(a, i + 2, Len(a))
Vec_insert(a, i, v) == SubSeq(a, 1, i) \o <<v>> \o SubSeq(a, i + 1, Len(a))

\* merge, the Array arm: the Nulls pushed so that a reaches position i
merge_padded(a, i) ==
    IF i > 0 /\ i >= Len(a)
    THEN a \o [j \in 1..(i - Len(a)) |-> MapValue_Null]
    ELSE a

\* a turn that inserts without removing what position i held
merge_placed_shifting(a, i, v) == Vec_insert(a, i, v)

\* merge, the Array arm after the padding: a.remove(i) if i < a.len(), then
\* a.insert(i, v)
merge_placed(a, i, v) ==
    IF i < Len(a) THEN Vec_insert(Vec_remove(a, i), i, v) ELSE Vec_insert(a, i, v)

\* merge, the Array arm: every element of b that is not Null is put into a
merge_array(a, b) ==
    LET acc[n \in 0..Len(b)] ==
            IF n = 0 THEN a
            ELSE IF b[n].kind = "Null" THEN acc[n - 1]
            ELSE merge_placed(merge_padded(acc[n - 1], n - 1), n - 1, b[n])
    IN  acc[Len(b)]

\* merge(a, b): the value of a afterwards
RECURSIVE merge(_, _)
merge(a, b) ==
    CASE a.kind = "Map" /\ b.kind = "Map" ->
            MapValue_Map([k \in DOMAIN a.c \cup DOMAIN b.c |->
                IF k \in DOMAIN b.c
                THEN merge(IF k \in DOMAIN a.c THEN a.c[k] ELSE MapValue_Null, b.c[k])
                ELSE a.c[k]])
      [] a.kind = "Array" /\ b.kind = "Array" ->
            MapValue_Array(merge_array(a.c, b.c))
      [] OTHER -> b

\* the flat maps unflatten is run on: an array of up to MaxLen values written
\* under a prefix, and other entries beside it
Values == {"v1", "v2"}
Prefixes == {<<"b">>, <<"a", ".", "b">>}
Others == {<<"c">>, <<"a", ".", "c">>}
ArrayKey(p, i) == p \o <<"[">> \o to_string(i) \o <<"]">>
ArrayKeys(p, n) == {ArrayKey(p, i) : i \in 0..(n - 1)}

\* unflatten: m starts as the empty map
UnflattenInit ==
    /\ \E p \in Prefixes, n \in 1..MaxLen, others \in SUBSET Others :
          map \in [ArrayKeys(p, n) \cup others -> Values]
    /\ todo = DOMAIN map
    /\ m = MapValue_Map(<<>>)
    /\ lead = <<>>

\* no unflatten is running
UnflattenIdle ==
    /\ map = <<>>
    /\ todo = {}
    /\ m = MapValue_Map(<<>>)
    /\ lead = <<>>

\* one turn of `for (k, v) in map`: a HashMap yields its entries in any order
Merge ==
    \E k \in todo :
        /\ m' = merge(m, uf(k, MapValue_Value(map[k])))
        /\ todo' = todo \ {k}
        /\ lead' = IF todo = DOMAIN map THEN k ELSE lead
        /\ UNCHANGED map
        /\ UNCHANGED <<svars, rvars>>

UnflattenNext == Merge

Init == SinkInit /\ RouterInit /\ UnflattenIdle

\* the router's runs leave the lone FileSink as constructed on an empty file
RInit == Init /\ orig = <<>>

\* the pending open of the child for path p resolves
ROpenResolves ==
    \E p \in Paths :
        /\ rresult # "Panic"
        /\ ropen[p] = "pending"
        /\ \E o \in {"ok", "err"} : ropen' = [ropen EXCEPT ![p] = o]
        /\ UNCHANGED <<partitions, files, rdisk, routed, rop, rarg, rresult>>
        /\ UNCHANGED <<svars, uvars>>

\* the disk behind path p becomes ready, busy or failing
RDiskChanges ==
    \E p \in Paths :
        /\ rresult # "Panic"
        /\ \E d \in RouterDiskStates \ {rdisk[p]} : rdisk' = [rdisk EXCEPT ![p] = d]
        /\ UNCHANGED <<partitions, files, ropen, routed, rop, rarg, rresult>>
        /\ UNCHANGED <<svars, uvars>>

RReturned(name, event, out) ==
    /\ partitions' = out.partitions
    /\ files' = out.files
    /\ rop' = name
    /\ rarg' = event
    /\ rresult' = out.r
    /\ UNCHANGED <<ropen, rdisk>>
    /\ UNCHANGED <<svars, uvars>>

RStartSend ==
    \E event \in Events :
        /\ rresult # "Panic"
        /\ Len(routed) < MaxEvents
        /\ RReturned("start_send", event,
                     PartitionedFileSink_start_send(partitions, files, event, ropen, rdisk))
        /\ routed' = IF rresult' = "Ready" /\ render(event) # RenderErr
                     THEN Append(routed, event) ELSE routed

RPollComplete ==
    \E order \in Orders(DOMAIN partitions) :
        /\ rresult # "Panic"
        /\ RReturned("poll_complete", NoEvent,
                     PartitionedFileSink_poll_complete(order, partitions, files, ropen, rdisk))
        /\ UNCHANGED routed

RClose ==
    \E order \in Orders(DOMAIN partitions) :
        /\ rresult # "Panic"
        /\ RReturned("close", NoEvent,
                     PartitionedFileSink_close(order, partitions, files, ropen, rdisk))
        /\ UNCHANGED routed

RouterNext == ROpenResolves \/ RDiskChanges \/ RStartSend \/ RPollComplete \/ RClose

Spec == Init /\ [][Next]_vars

\* the pending open resolves in the end and the caller keeps offering buffers
LiveSpec == Spec /\ WF_vars(OpenResolves) /\ WF_vars(StartSend)

RouterSpec == RInit /\ [][RouterNext]_vars

\* the runs of unflatten leave the sinks as constructed
UInit == SinkInit /\ orig = <<>> /\ RouterInit /\ UnflattenInit

UnflattenSpec == UInit /\ [][UnflattenNext]_vars

RouterTypeOK ==
    /\ DOMAIN partitions \subseteq Paths
    /\ \A p \in DOMAIN partitions :
          /\ partitions[p].with \in {"Empty", "Process", "Buffered"}
          /\ partitions[p].sink.state \in {"OpeningFile", "FileProvided", "Disconnected"}
    /\ rresult \in {"none", "Ready", "NotReady", "Err", "Panic"}
    /\ Len(routed) <= MaxEvents

\* ------------------------------------------------------------------ claims
Calls == {"start_send", "poll_complete", "close"}

\* C1: every call on a FileSink whose state is Disconnected returns the
\* NotConnected error, polls no open and calls no handle, leaves the file as
\* it was and leaves the state Disconnected.
C1_DisconnectedFailsFast ==
    [][ (sink.state = "Disconnected" /\ open' = open /\ disk' = disk)
            => /\ op' \in Calls \cup {"poll_file"}
               /\ result' = disconnected
               /\ io' = FALSE
               /\ file' = file
               /\ sink'.state = "Disconnected" ]_vars

C1_Witness ==
    /\ pre = "Disconnected" /\ op = "close" /\ result = disconnected
    /\ file # orig

\* C2: once close() reports completion the file holds exactly the accepted
\* buffers, in order, after what it held before.
C2_CloseDeliversAll ==
    (op = "close" /\ result = "Ready") => file = orig \o Flatten(accepted)

\* C3: what has been written to the file is a prefix of the accepted buffers
\* in the order they were accepted, and nothing is written while the sink is
\* still OpeningFile.
C3_FifoAndNoWriteBeforeOpen ==
    /\ IsPrefix(orig, file)
    /\ IsPrefix(file, orig \o Flatten(accepted))
    /\ (sink.state = "OpeningFile" => file = orig)

C3_Witness ==
    /\ Len(accepted) >= 2
    /\ accepted[1] # accepted[2]
    /\ Len(file) = Len(orig) + 3

\* C8: every call that moves the sink into Disconnected returns the I/O error.
C8_FailureIsReturned ==
    (op \in Calls /\ pre # "Disconnected" /\ sink.state = "Disconnected")
        => result = "IoError"

\* C9: after a call returned an I/O error other than NotConnected the sink
\* is Disconnected.
C9_ErrorDisables ==
    (op \in Calls /\ result = "IoError") => sink.state = "Disconnected"

\* C10: Disconnected is terminal: no step leaves it.
C10_DisconnectedIsTerminal ==
    [][ sink.state = "Disconnected" => sink'.state = "Disconnected" ]_vars

C10_Witness ==
    /\ pre = "Disconnected" /\ sink.state = "Disconnected"
    /\ op = "start_send" /\ open = "ok"

\* C11: a start_send on a sink whose open is still pending returns NotReady
\* and hands back the very buffer it was given; the sink keeps nothing of it,
\* nothing is written and the state stays OpeningFile.
C11_RejectedBufferIsHandedBack ==
    [][ (/\ sink.state = "OpeningFile" /\ open = "pending"
         /\ open' = open /\ disk' = disk /\ op' = "start_send")
            => /\ result' = "NotReady"
               /\ arg' \in Lines
               /\ back' = arg'
               /\ sink' = sink
               /\ file' = file
               /\ accepted' = accepted ]_vars

C11_Witness ==
    /\ op = "start_send" /\ pre = "OpeningFile" /\ open = "pending"
    /\ result = "NotReady" /\ back = arg /\ back \in Lines
    /\ sink = OpeningFile /\ file = orig

\* C15: the file is appended to, never truncated: after earlier sinks wrote
\* their buffers and were closed, a new sink on the same path that writes its
\* buffers and is closed leaves the file holding what it held at first, then
\* the earlier buffers, then the new ones.
C15_ReopenAppends ==
    (nsinks > 1 /\ op = "close" /\ result = "Ready" /\ sink.state = "FileProvided")
        => file = first \o Flatten(prior) \o Flatten(accepted)

C15_Witness ==
    /\ nsinks = 2 /\ op = "close" /\ result = "Ready"
    /\ sink.state = "FileProvided"
    /\ first # <<>> /\ prior # <<>> /\ accepted # <<>>
    /\ file = first \o Flatten(prior) \o Flatten(accepted)

\* C16: the state moves only along the table: a new sink starts in
\* OpeningFile; OpeningFile becomes FileProvided only when the open succeeded
\* and Disconnected only when it failed; FileProvided becomes Disconnected
\* only on a failed write or flush and never goes back to OpeningFile; nothing
\* leaves Disconnected; the state is always exactly one of the three. (One
\* call may take two transitions of the table: the open succeeds, then the
\* flush fails.)
C16_StateFollowsTheTable ==
    /\ sink.state = "OpeningFile"
    /\ [][ /\ sink'.state \in {"OpeningFile", "FileProvided", "Disconnected"}
           /\ (nsinks' # nsinks) => sink'.state = "OpeningFile"
           /\ (nsinks' = nsinks /\ sink'.state # sink.state)
                => \/ /\ sink.state = "OpeningFile" /\ open = "ok"
                      /\ sink'.state = "FileProvided"
                   \/ /\ sink.state = "OpeningFile" /\ open = "err"
                      /\ sink'.state = "Disconnected"
                   \/ /\ sink.state = "FileProvided" /\ disk.io = "err"
                      /\ sink'.state = "Disconnected"
                   \/ /\ sink.state = "OpeningFile" /\ open = "ok"
                      /\ disk.io = "err" /\ sink'.state = "Disconnected" ]_vars

C16_Witness ==
    /\ op \in Calls /\ pre = "FileProvided" /\ sink.state = "Disconnected"
    /\ open = "ok" /\ disk.io = "err"

\* C18: the OpeningFile arm of close is never taken: no call panics, a
\* poll_complete that returned Ready left the state FileProvided or
\* Disconnected, and a close on a sink whose open is pending returns NotReady.
C18_CloseNeverPanics ==
    /\ result # "Panic"
    /\ (op = "poll_complete" /\ result = "Ready") => sink.state # "OpeningFile"
    /\ (op = "close" /\ pre = "OpeningFile" /\ sink.state = "OpeningFile")
            => result = "NotReady"

C18_Witness ==
    /\ op = "close" /\ pre = "OpeningFile" /\ sink.state = "OpeningFile"
    /\ result = "NotReady" /\ open = "pending"

\* C19: a buffer rejected because the file was still opening is not rejected
\* for ever: start_send later returns Ready or an error; and once the open
\* has resolved no start_send is answered NotReady by a sink in OpeningFile.
C19_OpeningRejectionEnds ==
    /\ (op = "start_send" /\ result = "NotReady" /\ sink.state = "OpeningFile")
            ~> (op = "start_send" /\ result \in {"Ready", "IoError", disconnected})
    /\ [][ (/\ sink.state = "OpeningFile" /\ open # "pending"
            /\ open' = open /\ disk' = disk /\ op' = "start_send")
                => result' # "NotReady" ]_vars

C19_Witness ==
    /\ op = "start_send" /\ pre = "OpeningFile" /\ result = "Ready"
    /\ sink.state = "FileProvided" /\ accepted # <<>>

\* C20: a close in which no write or flush failed and that returned Ready
\* leaves the state FileProvided, the handle closed; and a call on a sink in
\* that state is passed to the handle, not answered NotConnected.
C20_CloseLeavesConnected ==
    [][ (open' = open /\ disk' = disk /\ nsinks' = nsinks)
            => /\ (op' = "close" /\ result' = "Ready" /\ disk.io # "err")
                    => (sink'.state = "FileProvided" /\ sink'.closed)
               /\ (sink.state = "FileProvided" /\ sink.closed /\ op' \in Calls)
                    => (result' # disconnected /\ io') ]_vars

C20_Witness ==
    /\ op \in Calls /\ pre = "FileProvided" /\ sink.state = "FileProvided"
    /\ sink.closed /\ io /\ result = "Ready" /\ accepted # <<>>
    /\ sink.buffer # <<>>

\* what the events of es that render to path p encode to, in order
RECURSIVE LinesFor(_, _)
LinesFor(es, p) ==
    IF es = <<>> THEN <<>>
    ELSE (IF render(Head(es)) = p THEN log_event_as_bytes_with_nl(Head(es)) ELSE <<>>)
         \o LinesFor(Tail(es), p)

\* a child with nothing held or buffered and no handle left open
Completed(c) ==
    /\ c.with = "Empty"
    /\ \/ c.sink.state = "Disconnected"
       \/ c.sink.state = "FileProvided" /\ c.sink.buffer = <<>> /\ c.sink.closed

\* C4: no call on the router returns an error to its caller, whatever has
\* happened to a child.
C4_ChildFailureContained == rresult # "Err"

\* C5: when the router's close() reports completion every child in the table
\* has completed: nothing held or buffered, handle closed.
C5_CloseWaitsForChildren ==
    (rop = "close" /\ rresult = "Ready")
        => \A p \in DOMAIN partitions : Completed(partitions[p])

\* C6: once the router has completed, every file holds all of and only the
\* accepted events that render to its path, in arrival order.
C6_EachFileHoldsItsEvents ==
    (rop = "close" /\ rresult = "Ready")
        => \A p \in Paths : files[p] = LinesFor(routed, p)

\* C7: a start_send of an event the template cannot be rendered for returns
\* Ready and changes neither the partition table nor any file.
C7_UnrenderableIsDropped ==
    [][ (ropen' = ropen /\ rdisk' = rdisk
         /\ rop' = "start_send" /\ render(rarg') = RenderErr)
            => /\ rresult' = "Ready"
               /\ partitions' = partitions
               /\ files' = files
               /\ routed' = routed ]_vars

C7_Witness ==
    /\ rop = "start_send" /\ render(rarg) = RenderErr /\ rresult = "Ready"
    /\ \E p \in DOMAIN partitions : partitions[p].with = "Buffered"
    /\ \E p \in DOMAIN partitions : partitions[p].sink.state = "Disconnected"

\* C12: poll_complete on the router returns Ready, whatever its children
\* answer and whichever of them have failed.
C12_PollCompleteAlwaysReady ==
    rop = "poll_complete" => rresult = "Ready"

\* C13: the table only grows: no step removes an entry, failed child or not.
C13_TableOnlyGrows ==
    [][ DOMAIN partitions \subseteq DOMAIN partitions' ]_vars

C13_Witness ==
    /\ rop \in {"poll_complete", "close"} /\ rresult = "Ready"
    /\ \E p \in DOMAIN partitions :
          partitions[p].sink.state = "Disconnected" /\ ~partitions[p].f

\* C14: a key has one child for ever: the start_send of an event that renders
\* to the key leaves a child for it in the table, whatever it answers, and no
\* step replaces the child of a key by another sink or by a new one.
C14_OneChildPerKey ==
    [][ /\ \A p \in DOMAIN partitions :
              /\ p \in DOMAIN partitions'
              /\ partitions'[p].id = partitions[p].id
              /\ partitions[p].sink.state # "OpeningFile"
                    => partitions'[p].sink.state # "OpeningFile"
        /\ (/\ ropen' = ropen /\ rdisk' = rdisk
            /\ rop' = "start_send" /\ render(rarg') \in Paths)
              => render(rarg') \in DOMAIN partitions' ]_vars

C14_Witness ==
    \E p \in DOMAIN partitions :
        /\ rop = "start_send" /\ render(rarg) = p /\ rresult = "Ready"
        /\ partitions[p].id = 2
        /\ Len(LinesFor(routed, p)) >= 2 * Len(log_event_as_bytes_with_nl(rarg))

\* C17: a start_send on the router for an event of key k adds at most the
\* child of k to the table, leaves every other child and every other file as
\* it was, and returns an error or NotReady only for what the child of k is:
\* failed, or still holding an event.
C17_PartitionsAreIndependent ==
    [][ (/\ ropen' = ropen /\ rdisk' = rdisk
         /\ rop' = "start_send" /\ render(rarg') \in Paths)
            => /\ DOMAIN partitions' = DOMAIN partitions \cup {render(rarg')}
               /\ \A q \in Paths \ {render(rarg')} :
                     /\ files'[q] = files[q]
                     /\ q \in DOMAIN partitions => partitions'[q] = partitions[q]
               /\ rresult' = "Err"
                     => partitions'[render(rarg')].sink.state = "Disconnected"
               /\ rresult' = "NotReady"
                     => partitions'[render(rarg')].with # "Empty" ]_vars

C17_Witness ==
    \E p, q \in DOMAIN partitions :
        /\ p # q /\ rop = "start_send" /\ render(rarg) = p /\ rresult = "Ready"
        /\ partitions[q].sink.state = "Disconnected"
        /\ partitions[p].sink.state = "FileProvided"

\* what the MapValue v holds under the dotted path p, Null if nothing
Lookup(v, p) ==
    LET segs == rsplit(p)
        at[j \in 0..Len(segs)] ==
            IF j = 0 THEN v
            ELSE IF at[j - 1].kind = "Map"
                    /\ segs[Len(segs) + 1 - j] \in DOMAIN at[j - 1].c
            THEN at[j - 1].c[segs[Len(segs) + 1 - j]]
            ELSE MapValue_Null
    IN  at[Len(segs)]

\* C21: whatever the order in which the entries were merged, the keys
\* p[0] .. p[n-1] of the flat map end as one array of length n under p whose
\* element i is the value given for p[i].
C21_ArrayOrderIndependent ==
    (todo = {})
        => \A p \in Prefixes, n \in 1..MaxLen :
              (ArrayKeys(p, n) \subseteq DOMAIN map /\ ArrayKey(p, n) \notin DOMAIN map)
                => /\ Lookup(m, p).kind = "Array"
                   /\ Len(Lookup(m, p).c) = n
                   /\ \A i \in 0..(n - 1) :
                         /\ Lookup(m, p).c[i + 1].kind = "Value"
                         /\ Lookup(m, p).c[i + 1].c = map[ArrayKey(p, i)]

C21_Witness ==
    /\ todo = {}
    /\ DOMAIN map = ArrayKeys(<<"a", ".", "b">>, 3) \cup {<<"a", ".", "c">>}
    /\ lead = ArrayKey(<<"a", ".", "b">>, 2)
    /\ map[ArrayKey(<<"a", ".", "b">>, 0)] # map[ArrayKey(<<"a", ".", "b">>, 1)]
    /\ Lookup(m, <<"a", ".", "b">>).kind = "Array"
    /\ Len(Lookup(m, <<"a", ".", "b">>).c) = 3
    /\ Lookup(m, <<"a", ".", "b">>).c[3].c = map[ArrayKey(<<"a", ".", "b">>, 2)]
    /\ Lookup(m, <<"a", ".", "c">>).kind = "Value"

====
